---- MODULE Spec2Model ----
(***************************************************************************)
(* NutriGuide document processor (src/backend/doc_processor.py).           *)
(*                                                                         *)
(* The module models the document filtering and classification pipeline:   *)
(* ContentFilter, TableProcessor, validate_processed_chunks,               *)
(* process_single_document and load_and_preprocess_documents.              *)
(*                                                                         *)
(*   Spec     one call of load_and_preprocess_documents, followed by a     *)
(*            second call on the same manifest and the same files.         *)
(*   SpecDoc  one call of process_single_document on a PDF whose pages     *)
(*            are drawn from TEXTS at page numbers around the two page     *)
(*            thresholds of ContentFilter.is_low_value_page.               *)
(***************************************************************************)
EXTENDS Integers, Sequences, FiniteSets, TLC

VARIABLES
  files,              \* the file system: path -> [exists, readable, pages]
  manifest,           \* the manifest file: [kind, corpus]
  validation_raises,  \* whether the call of validate_processed_chunks raises
  pc,                 \* position in load_and_preprocess_documents / process_single_document
  idx,                \* position of the "for entry in corpus" loop (1-based)
  all_documents,      \* load_and_preprocess_documents: all_documents
  successful_docs,    \* load_and_preprocess_documents: successful_docs
  failed_docs,        \* load_and_preprocess_documents: failed_docs
  log,                \* one record per manifest entry handled, in order
  outcome,            \* how the call of load_and_preprocess_documents ended
  run,                \* 1 for the first call of load, 2 for the second
  first,              \* the outcome of the first call
  doc_entry,          \* SpecDoc: the argument of process_single_document
  doc_outcome         \* SpecDoc: how process_single_document ended

vars ==
  <<files, manifest, validation_raises, pc, idx, all_documents, successful_docs,
    failed_docs, log, outcome, run, first, doc_entry, doc_outcome>>

\* ---------------------------------------------------------------------
\* Bounds of the model
\* ---------------------------------------------------------------------

\* the largest number of entries of a manifest
MaxDocs ==
  2

\* the largest number of text pages that follow the blank lead pages of a generated PDF
MaxTail ==
  2

\* ---------------------------------------------------------------------
\* Vocabulary. A Python string is modelled as the tuple of its characters.
\* ---------------------------------------------------------------------

\* ContentFilter.NUTRITION_KEYWORDS
NUTRITION_KEYWORDS ==
  << <<"g","u","i","d","e","l","i","n","e">>,   \* guideline
     <<"r","e","c","o","m","m","e","n","d","a","t","i","o","n">>,   \* recommendation
     <<"s","e","r","v","i","n","g">>,   \* serving
     <<"d","a","i","l","y"," ","v","a","l","u","e">>,   \* daily value
     <<"m","g">>,   \* mg
     <<"g","r","a","m">>,   \* gram
     <<"s","o","d","i","u","m">>,   \* sodium
     <<"s","u","g","a","r">>,   \* sugar
     <<"f","a","t">>,   \* fat
     <<"v","i","t","a","m","i","n">>,   \* vitamin
     <<"m","i","n","e","r","a","l">>,   \* mineral
     <<"c","a","l","o","r","i","e">>,   \* calorie
     <<"d","i","e","t","a","r","y">>,   \* dietary
     <<"f","o","o","d"," ","g","r","o","u","p">>,   \* food group
     <<"v","e","g","e","t","a","b","l","e">>,   \* vegetable
     <<"f","r","u","i","t">>,   \* fruit
     <<"d","a","i","r","y">>,   \* dairy
     <<"p","r","o","t","e","i","n">>,   \* protein
     <<"g","r","a","i","n">>,   \* grain
     <<"p","r","e","g","n","a","n","t">>,   \* pregnant
     <<"i","n","f","a","n","t">>,   \* infant
     <<"c","h","i","l","d">>,   \* child
     <<"a","d","u","l","t">>,   \* adult
     <<"e","l","d","e","r","l","y">>,   \* elderly
     <<"l","i","m","i","t">>,   \* limit
     <<"c","o","n","s","u","m","e">>,   \* consume
     <<"a","d","e","q","u","a","t","e"," ","i","n","t","a","k","e">>,   \* adequate intake
     <<"t","o","l","e","r","a","b","l","e"," ","u","p","p","e","r">>,   \* tolerable upper
     <<"r","e","f","e","r","e","n","c","e"," ","v","a","l","u","e">>,   \* reference value
     <<"d","i","e","t","a","r","y"," ","a","l","l","o","w","a","n","c","e">> >>   \* dietary allowance

\* ContentFilter.USDA_ADMIN_PATTERNS
USDA_ADMIN_PATTERNS ==
  << <<"t","a","b","l","e"," ","o","f"," ","c","o","n","t","e","n","t","s">>,   \* table of contents
     <<"m","e","s","s","a","g","e"," ","f","r","o","m"," ","t","h","e"," ","s","e","c","r","e","t","a","r","i","e","s">>,   \* message from the secretaries
     <<"a","c","k","n","o","w","l","e","d","g","m","e","n","t","s">>,   \* acknowledgments
     <<"a","p","p","e","n","d","i","x">>,   \* appendix
     <<"b","i","b","l","i","o","g","r","a","p","h","y">>,   \* bibliography
     <<"r","e","f","e","r","e","n","c","e","s">>,   \* references
     <<"a","b","o","u","t"," ","t","h","i","s"," ","e","d","i","t","i","o","n">>,   \* about this edition
     <<"h","o","w"," ","t","o"," ","u","s","e"," ","t","h","i","s"," ","d","o","c","u","m","e","n","t">>,   \* how to use this document
     <<"p","a","r","t">>,   \* part
     <<"c","h","a","p","t","e","r">>,   \* chapter
     <<"s","e","c","t","i","o","n">>,   \* section
     <<"f","i","g","u","r","e">>,   \* figure
     <<"s","u","g","g","e","s","t","e","d"," ","c","i","t","a","t","i","o","n">>,   \* suggested citation
     <<"d","i","e","t","a","r","y","g","u","i","d","e","l","i","n","e","s",".","g","o","v">>,   \* dietaryguidelines.gov
     <<"i","s","b","n">>,   \* isbn
     <<"p","r","i","n","t","e","d"," ","i","n"," ","t","h","e"," ","u","n","i","t","e","d"," ","s","t","a","t","e","s">>,   \* printed in the united states
     <<"g","o","v","e","r","n","m","e","n","t"," ","p","r","i","n","t","i","n","g"," ","o","f","f","i","c","e">>,   \* government printing office
     <<"l","i","b","r","a","r","y"," ","o","f"," ","c","o","n","g","r","e","s","s">>,   \* library of congress
     <<"e","x","e","c","u","t","i","v","e"," ","s","u","m","m","a","r","y">>,   \* executive summary
     <<"k","e","y"," ","r","e","c","o","m","m","e","n","d","a","t","i","o","n","s">>,   \* key recommendations
     <<"p","a","g","e"," ","x">>,   \* page x
     <<"p","a","g","e"," ","x","i">>,   \* page xi
     <<"p","a","g","e"," ","x","i","i">> >>   \* page xii

\* detect_life_stages: pregnancy terms
pregnant_terms ==
  << <<"p","r","e","g","n","a","n","t">>,   \* pregnant
     <<"p","r","e","g","n","a","n","c","y">>,   \* pregnancy
     <<"m","a","t","e","r","n","a","l">>,   \* maternal
     <<"a","n","t","e","n","a","t","a","l">> >>   \* antenatal

\* detect_life_stages: lactation terms
breastfeeding_terms ==
  << <<"b","r","e","a","s","t","f","e","e","d">>,   \* breastfeed
     <<"l","a","c","t","a","t","i","o","n">>,   \* lactation
     <<"b","r","e","a","s","t"," ","m","i","l","k">> >>   \* breast milk

\* detect_life_stages: infant terms
infant_terms ==
  << <<"i","n","f","a","n","t">>,   \* infant
     <<"b","a","b","y">>,   \* baby
     <<"b","i","r","t","h">>,   \* birth
     <<"n","e","w","b","o","r","n">>,   \* newborn
     <<"0","-","1","2"," ","m","o","n","t","h","s">> >>   \* 0-12 months

\* detect_life_stages: child terms
child_terms ==
  << <<"c","h","i","l","d">>,   \* child
     <<"c","h","i","l","d","r","e","n">>,   \* children
     <<"a","d","o","l","e","s","c","e","n","t">>,   \* adolescent
     <<"t","e","e","n">>,   \* teen
     <<"t","o","d","d","l","e","r">>,   \* toddler
     <<"p","r","e","s","c","h","o","o","l">> >>   \* preschool

\* detect_life_stages: adult terms
adult_terms ==
  << <<"a","d","u","l","t">>,   \* adult
     <<"a","d","u","l","t","s">>,   \* adults
     <<"m","i","d","d","l","e"," ","a","g","e","d">> >>   \* middle aged

\* detect_life_stages: ageing terms
older_terms ==
  << <<"o","l","d","e","r">>,   \* older
     <<"e","l","d","e","r","l","y">>,   \* elderly
     <<"s","e","n","i","o","r">>,   \* senior
     <<"6","5","+">>,   \* 65+
     <<"a","g","i","n","g">> >>   \* aging

\* detect_life_stages: special cases
athlete_terms ==
  << <<"a","t","h","l","e","t","e">>,   \* athlete
     <<"s","p","o","r","t","s">> >>   \* sports

\* detect_nutrient_tables: nutrient_indicators
nutrient_indicators ==
  << <<"d","a","i","l","y"," ","v","a","l","u","e">>,   \* daily value
     <<"d","v","%">>,   \* dv%
     <<"r","e","c","o","m","m","e","n","d","e","d"," ","i","n","t","a","k","e">>,   \* recommended intake
     <<"a","d","e","q","u","a","t","e"," ","i","n","t","a","k","e">>,   \* adequate intake
     <<"t","o","l","e","r","a","b","l","e"," ","u","p","p","e","r"," ","i","n","t","a","k","e"," ","l","e","v","e","l">>,   \* tolerable upper intake level
     <<"u","l">>,   \* ul
     <<"a","i">>,   \* ai
     <<"r","d","a">>,   \* rda
     <<"f","o","o","d"," ","s","o","u","r","c","e","s"," ","o","f">>,   \* food sources of
     <<"m","i","l","l","i","g","r","a","m","s"," ","p","e","r"," ","d","a","y">>,   \* milligrams per day
     <<"g","r","a","m","s"," ","p","e","r"," ","d","a","y">>,   \* grams per day
     <<"s","o","d","i","u","m"," ","r","e","c","o","m","m","e","n","d","a","t","i","o","n">>,   \* sodium recommendation
     <<"s","u","g","a","r"," ","r","e","c","o","m","m","e","n","d","a","t","i","o","n">>,   \* sugar recommendation
     <<"f","a","t"," ","r","e","c","o","m","m","e","n","d","a","t","i","o","n">>,   \* fat recommendation
     <<"v","i","t","a","m","i","n"," ","d">>,   \* vitamin d
     <<"c","a","l","c","i","u","m">>,   \* calcium
     <<"p","o","t","a","s","s","i","u","m">>,   \* potassium
     <<"f","i","b","e","r">>,   \* fiber
     <<"n","u","t","r","i","e","n","t">> >>   \* nutrient

\* detect_nutrient_tables: non_nutrient_indicators
non_nutrient_indicators ==
  << <<"t","a","b","l","e"," ","o","f"," ","c","o","n","t","e","n","t","s">>,   \* table of contents
     <<"f","i","g","u","r","e">>,   \* figure
     <<"a","p","p","e","n","d","i","x">>,   \* appendix
     <<"b","i","b","l","i","o","g","r","a","p","h","y">>,   \* bibliography
     <<"r","e","f","e","r","e","n","c","e","s">>,   \* references
     <<"a","c","k","n","o","w","l","e","d","g","m","e","n","t","s">>,   \* acknowledgments
     <<"c","o","n","t","r","i","b","u","t","o","r","s">>,   \* contributors
     <<"r","e","v","i","e","w","e","r","s">>,   \* reviewers
     <<"c","h","a","p","t","e","r">>,   \* chapter
     <<"s","e","c","t","i","o","n">>,   \* section
     <<"p","a","r","t">>,   \* part
     <<"p","a","g","e"," ","n","u","m","b","e","r">> >>   \* page number

\* validate_processed_chunks: admin_keywords
admin_keywords ==
  << <<"c","i","t","a","t","i","o","n">>,   \* citation
     <<"d","o","w","n","l","o","a","d","e","d">>,   \* downloaded
     <<"p","u","b","l","i","c","a","t","i","o","n">>,   \* publication
     <<"p","r","i","n","t","e","d">>,   \* printed
     <<"i","s","b","n">>,   \* isbn
     <<"g","o","v","e","r","n","m","e","n","t"," ","p","r","i","n","t","i","n","g">>,   \* government printing
     <<"c","o","n","g","r","e","s","s">>,   \* congress
     <<"c","o","p","y","r","i","g","h","t">>,   \* copyright
     <<"r","e","s","e","r","v","e","d">>,   \* reserved
     <<"a","c","k","n","o","w","l","e","d","g","m","e","n","t","s">>,   \* acknowledgments
     <<"f","u","n","d","i","n","g">>,   \* funding
     <<"c","o","n","t","r","a","c","t">>,   \* contract
     <<"p","r","e","p","a","r","e","d"," ","b","y">>,   \* prepared by
     <<"s","u","b","m","i","t","t","e","d"," ","t","o">>,   \* submitted to
     <<"d","r","a","f","t","e","d"," ","b","y">>,   \* drafted by
     <<"s","u","g","g","e","s","t","e","d"," ","c","i","t","a","t","i","o","n">>,   \* suggested citation
     <<"d","i","e","t","a","r","y","g","u","i","d","e","l","i","n","e","s",".","g","o","v">> >>   \* dietaryguidelines.gov

\* process_single_document: medical_triggers
medical_triggers ==
  << <<"p","r","e","g","n","a","n","t">>,   \* pregnant
     <<"b","r","e","a","s","t","f","e","e","d">>,   \* breastfeed
     <<"i","n","f","a","n","t">>,   \* infant
     <<"m","e","d","i","c","a","l"," ","c","o","n","d","i","t","i","o","n">>,   \* medical condition
     <<"d","i","s","e","a","s","e">>,   \* disease
     <<"d","i","s","o","r","d","e","r">>,   \* disorder
     <<"i","l","l","n","e","s","s">> >>   \* illness

\* process_single_document: professional_triggers
professional_triggers ==
  << <<"p","r","o","f","e","s","s","i","o","n","a","l"," ","u","s","e"," ","o","n","l","y">>,   \* professional use only
     <<"h","e","a","l","t","h","c","a","r","e"," ","p","r","o","v","i","d","e","r">>,   \* healthcare provider
     <<"c","l","i","n","i","c","i","a","n">>,   \* clinician
     <<"p","r","e","s","c","r","i","b","e">>,   \* prescribe
     <<"d","i","a","g","n","o","s","e">>,   \* diagnose
     <<"t","r","e","a","t">> >>   \* treat

\* process_single_document: document type keywords
nutrient_id_keywords ==
  << <<"n","u","t","r","i","e","n","t">>,   \* nutrient
     <<"s","o","d","i","u","m">>,   \* sodium
     <<"s","u","g","a","r">>,   \* sugar
     <<"f","a","t">>,   \* fat
     <<"v","i","t","a","m","i","n">> >>   \* vitamin

\* process_single_document: summary document keywords
summary_id_keywords ==
  << <<"s","u","m","m","a","r","y">>,   \* summary
     <<"e","x","e","c","u","t","i","v","e">> >>   \* executive

\* "table of contents"
TABLE_OF_CONTENTS ==
  <<"t","a","b","l","e"," ","o","f"," ","c","o","n","t","e","n","t","s">>

\* "page"
PAGE ==
  <<"p","a","g","e">>

\* "copyright"
COPYRIGHT ==
  <<"c","o","p","y","r","i","g","h","t">>

\* "©"
COPYRIGHT_SIGN ==
  <<"©">>

\* "reserved"
RESERVED ==
  <<"r","e","s","e","r","v","e","d">>

\* "suggested citation"
SUGGESTED_CITATION ==
  <<"s","u","g","g","e","s","t","e","d"," ","c","i","t","a","t","i","o","n">>

\* "dietaryguidelines.gov"
DIETARYGUIDELINES_GOV ==
  <<"d","i","e","t","a","r","y","g","u","i","d","e","l","i","n","e","s",".","g","o","v">>

\* "[NUTRIENT_TABLE_START]\n"
NUTRIENT_TABLE_START ==
  <<"[","N","U","T","R","I","E","N","T","_","T","A","B","L","E","_","S","T","A","R","T","]","\n">>

\* "\n[NUTRIENT_TABLE_END]"
NUTRIENT_TABLE_END ==
  <<"\n","[","N","U","T","R","I","E","N","T","_","T","A","B","L","E","_","E","N","D","]">>

\* ---------------------------------------------------------------------
\* Page texts and manifest ids the inputs are drawn from.
\* ---------------------------------------------------------------------

\* "Sodium daily value 2300 mg adults limit"
T_SODIUM ==
  <<"S","o","d","i","u","m"," ","d","a","i","l","y"," ","v","a","l","u","e"," ","2","3","0","0"," ","m","g"," ","a","d","u","l","t","s"," ","l","i","m","i","t">>

\* "Table of Contents ... page iv"
T_TOC ==
  <<"T","a","b","l","e"," ","o","f"," ","C","o","n","t","e","n","t","s"," ",".",".","."," ","p","a","g","e"," ","i","v">>

\* "Suggested citation: USDA (2020)."
T_CITE ==
  <<"S","u","g","g","e","s","t","e","d"," ","c","i","t","a","t","i","o","n",":"," ","U","S","D","A"," ","(","2","0","2","0",")",".">>

\* "Pregnant adults: limit sodium; ask a healthcare provider"
T_BOTH ==
  <<"P","r","e","g","n","a","n","t"," ","a","d","u","l","t","s",":"," ","l","i","m","i","t"," ","s","o","d","i","u","m",";"," ","a","s","k"," ","a"," ","h","e","a","l","t","h","c","a","r","e"," ","p","r","o","v","i","d","e","r">>

\* "Disease: see a Clinician"
T_BOTH_LOW ==
  <<"D","i","s","e","a","s","e",":"," ","s","e","e"," ","a"," ","C","l","i","n","i","c","i","a","n">>

\* "Infant and child vitamin guideline"
T_INFANT ==
  <<"I","n","f","a","n","t"," ","a","n","d"," ","c","h","i","l","d"," ","v","i","t","a","m","i","n"," ","g","u","i","d","e","l","i","n","e">>

\* "Figure 2: calcium, potassium, fiber in fruit, grain, dairy"
T_FIGURE ==
  <<"F","i","g","u","r","e"," ","2",":"," ","c","a","l","c","i","u","m",","," ","p","o","t","a","s","s","i","u","m",","," ","f","i","b","e","r"," ","i","n"," ","f","r","u","i","t",","," ","g","r","a","i","n",","," ","d","a","i","r","y">>

\* "© 2020 USDA. All rights reserved."
T_COPYRIGHT ==
  <<"©"," ","2","0","2","0"," ","U","S","D","A","."," ","A","l","l"," ","r","i","g","h","t","s"," ","r","e","s","e","r","v","e","d",".">>

\* "See DietaryGuidelines.gov"
T_GOV ==
  <<"S","e","e"," ","D","i","e","t","a","r","y","G","u","i","d","e","l","i","n","e","s",".","g","o","v">>

\* ""
T_EMPTY ==
  <<>>

\* " \n "
T_BLANK ==
  <<" ","\n"," ">>

\* "Vitamin D and mineral intake from fruit"
T_GENERAL ==
  <<"V","i","t","a","m","i","n"," ","D"," ","a","n","d"," ","m","i","n","e","r","a","l"," ","i","n","t","a","k","e"," ","f","r","o","m"," ","f","r","u","i","t">>

\* "Older adults need protein and dairy"
T_OLDER ==
  <<"O","l","d","e","r"," ","a","d","u","l","t","s"," ","n","e","e","d"," ","p","r","o","t","e","i","n"," ","a","n","d"," ","d","a","i","r","y">>

\* "Prepared by contract; funding printed"
T_ADMIN ==
  <<"P","r","e","p","a","r","e","d"," ","b","y"," ","c","o","n","t","r","a","c","t",";"," ","f","u","n","d","i","n","g"," ","p","r","i","n","t","e","d">>

\* "Suggested citation: sodium, sugar and fat guideline"
T_CITE_RICH ==
  <<"S","u","g","g","e","s","t","e","d"," ","c","i","t","a","t","i","o","n",":"," ","s","o","d","i","u","m",","," ","s","u","g","a","r"," ","a","n","d"," ","f","a","t"," ","g","u","i","d","e","l","i","n","e">>

\* "See page 4: sodium, sugar and fat limit"
T_PAGE_REF ==
  <<"S","e","e"," ","p","a","g","e"," ","4",":"," ","s","o","d","i","u","m",","," ","s","u","g","a","r"," ","a","n","d"," ","f","a","t"," ","l","i","m","i","t">>

\* "Elderly: protein, dairy and vitamin"
T_ELDERLY ==
  <<"E","l","d","e","r","l","y",":"," ","p","r","o","t","e","i","n",","," ","d","a","i","r","y"," ","a","n","d"," ","v","i","t","a","m","i","n">>

\* "Sports and athlete notes"
T_ATHLETE ==
  <<"S","p","o","r","t","s"," ","a","n","d"," ","a","t","h","l","e","t","e"," ","n","o","t","e","s">>

TEXTS ==
  {T_SODIUM, T_TOC, T_CITE, T_BOTH, T_BOTH_LOW, T_INFANT, T_FIGURE, T_COPYRIGHT, T_GOV, T_EMPTY, T_BLANK, T_GENERAL, T_OLDER, T_ADMIN, T_CITE_RICH,
   T_PAGE_REF, T_ELDERLY, T_ATHLETE}

\* "dga_2020"
ID_DGA ==
  <<"d","g","a","_","2","0","2","0">>

\* "who_sugar"
ID_SUGAR ==
  <<"w","h","o","_","s","u","g","a","r">>

\* "Sodium_Summary"
ID_SODIUM_SUMMARY ==
  <<"S","o","d","i","u","m","_","S","u","m","m","a","r","y">>

\* "executive_summary"
ID_EXEC ==
  <<"e","x","e","c","u","t","i","v","e","_","s","u","m","m","a","r","y">>

IDS ==
  {ID_DGA, ID_SUGAR, ID_SODIUM_SUMMARY, ID_EXEC}

\* ---------------------------------------------------------------------
\* Python string operations
\* ---------------------------------------------------------------------

UPPERCASE ==
  <<"A","B","C","D","E","F","G","H","I","J","K","L","M",
    "N","O","P","Q","R","S","T","U","V","W","X","Y","Z">>

LOWERCASE ==
  <<"a","b","c","d","e","f","g","h","i","j","k","l","m",
    "n","o","p","q","r","s","t","u","v","w","x","y","z">>

WHITESPACE ==
  {" ", "\n", "\t"}

Range(s) ==
  {s[i] : i \in DOMAIN s}

SetMin(S) ==
  CHOOSE x \in S : \A y \in S : x <= y

SetMax(S) ==
  CHOOSE x \in S : \A y \in S : x >= y

lower_char(c) ==
  IF \E i \in DOMAIN UPPERCASE : UPPERCASE[i] = c
  THEN LOWERCASE[CHOOSE i \in DOMAIN UPPERCASE : UPPERCASE[i] = c]
  ELSE c

\* str.lower(), character by character
lower_chars(s) ==
  [i \in 1..Len(s) |-> lower_char(s[i])]

\* f"[NUTRIENT_TABLE_START]\n{text}\n[NUTRIENT_TABLE_END]"
wrap(text) ==
  NUTRIENT_TABLE_START \o text \o NUTRIENT_TABLE_END

\* every string the program lower-cases, for the texts and ids of the model
LOWERED ==
  [s \in TEXTS \cup {wrap(t) : t \in TEXTS} \cup IDS |-> lower_chars(s)]

\* str.lower()
lower(s) ==
  IF s \in DOMAIN LOWERED THEN LOWERED[s] ELSE lower_chars(s)

\* str.strip(), character by character
strip_chars(s) ==
  LET keep == {i \in 1..Len(s) : s[i] \notin WHITESPACE}
  IN  IF keep = {} THEN <<>> ELSE SubSeq(s, SetMin(keep), SetMax(keep))

\* every string the program strips, for the texts of the model
STRIPPED ==
  [s \in TEXTS \cup {lower(t) : t \in TEXTS} |-> strip_chars(s)]

\* str.strip()
strip(s) ==
  IF s \in DOMAIN STRIPPED THEN STRIPPED[s] ELSE strip_chars(s)

\* len(str.split()) character by character: the number of maximal runs of
\* non-whitespace characters
split_chars_len(s) ==
  Cardinality({i \in 1..Len(s) :
                 s[i] \notin WHITESPACE /\ (i = 1 \/ s[i - 1] \in WHITESPACE)})

\* the word count of every string the program splits, for the texts of the model
WORD_COUNT ==
  [s \in {strip(lower(t)) : t \in TEXTS} \cup {lower(t) : t \in TEXTS}
          \cup {lower(wrap(t)) : t \in TEXTS} |-> split_chars_len(s)]

\* len(str.split())
split_len(s) ==
  IF s \in DOMAIN WORD_COUNT THEN WORD_COUNT[s] ELSE split_chars_len(s)

\* "term in s" computed character by character
occurs(term, s) ==
  \E k \in 0..(Len(s) - Len(term)) : \A j \in 1..Len(term) : s[k + j] = term[j]

\* every term the program searches for
VOCABULARY ==
  UNION {Range(L) : L \in {NUTRITION_KEYWORDS, USDA_ADMIN_PATTERNS, pregnant_terms,
                           breastfeeding_terms, infant_terms, child_terms, adult_terms,
                           older_terms, athlete_terms, nutrient_indicators,
                           non_nutrient_indicators, admin_keywords, medical_triggers,
                           professional_triggers, nutrient_id_keywords,
                           summary_id_keywords}}
  \cup {TABLE_OF_CONTENTS, PAGE, COPYRIGHT, COPYRIGHT_SIGN, RESERVED,
        SUGGESTED_CITATION, DIETARYGUIDELINES_GOV}

\* every string the program searches in, for the texts and ids of the model
SCANNED ==
  {lower(t) : t \in TEXTS} \cup {strip(lower(t)) : t \in TEXTS}
  \cup {lower(wrap(t)) : t \in TEXTS} \cup {lower(i) : i \in IDS}

\* the terms occurring in each searched string, computed once
FOUND ==
  [s \in SCANNED |-> {w \in VOCABULARY : occurs(w, s)}]

\* "term in s"
In(term, s) ==
  IF term \in VOCABULARY /\ s \in SCANNED THEN term \in FOUND[s] ELSE occurs(term, s)

\* every list of terms the program counts or tests with any()
TERM_LISTS ==
  {NUTRITION_KEYWORDS, USDA_ADMIN_PATTERNS, pregnant_terms, breastfeeding_terms,
   infant_terms, child_terms, adult_terms, older_terms, athlete_terms,
   nutrient_indicators, non_nutrient_indicators, admin_keywords, medical_triggers,
   professional_triggers, nutrient_id_keywords, summary_id_keywords}

\* the number of terms of each list occurring in each searched string, computed once
COUNTED ==
  [list \in TERM_LISTS |->
     [s \in SCANNED |-> Cardinality({i \in DOMAIN list : In(list[i], s)})]]

\* sum(1 for kw in list if kw in s)
count_in(list, s) ==
  IF list \in TERM_LISTS /\ s \in SCANNED
  THEN COUNTED[list][s]
  ELSE Cardinality({i \in DOMAIN list : In(list[i], s)})

\* any(kw in s for kw in list)
any_in(list, s) ==
  IF list \in TERM_LISTS /\ s \in SCANNED
  THEN COUNTED[list][s] >= 1
  ELSE \E i \in DOMAIN list : In(list[i], s)

\* list(a set): the iteration order of a set of str is not fixed by the language
\* (hash randomisation), so every order is possible
list_of_set(S) ==
  {l \in [1..Cardinality(S) -> S] : \A i, j \in 1..Cardinality(S) : l[i] = l[j] => i = j}

\* ---------------------------------------------------------------------
\* ContentFilter
\* ---------------------------------------------------------------------

\* mutant: the table-of-contents rule does not ask for "table of contents"
is_low_value_page_any_page_word(text, page_num, total_pages, nutrition_matches) ==
  IF text = <<>> \/ Len(strip(text)) = 0
  THEN TRUE
  ELSE LET text_lower == strip(lower(text))
           word_count == split_len(text_lower)
           admin_matches == count_in(USDA_ADMIN_PATTERNS, text_lower)
       IN  IF page_num <= 15 /\ admin_matches >= 1 THEN TRUE
           ELSE IF page_num <= 20 /\ nutrition_matches < 3 THEN TRUE
           ELSE IF In(PAGE, text_lower) /\ word_count < 500 THEN TRUE
           ELSE IF (In(COPYRIGHT, text_lower) \/ In(COPYRIGHT_SIGN, text_lower))
                   /\ In(RESERVED, text_lower) /\ word_count < 300 THEN TRUE
           ELSE FALSE

\* mutant: the nutrition rule covers the first 15 pages only
is_low_value_page_short_nutrition_window(text, page_num, total_pages, nutrition_matches) ==
  IF text = <<>> \/ Len(strip(text)) = 0
  THEN TRUE
  ELSE LET text_lower == strip(lower(text))
           word_count == split_len(text_lower)
           admin_matches == count_in(USDA_ADMIN_PATTERNS, text_lower)
       IN  IF page_num <= 15 /\ admin_matches >= 1 THEN TRUE
           ELSE IF page_num <= 15 /\ nutrition_matches < 3 THEN TRUE
           ELSE IF In(TABLE_OF_CONTENTS, text_lower) /\ In(PAGE, text_lower)
                   /\ word_count < 500 THEN TRUE
           ELSE IF (In(COPYRIGHT, text_lower) \/ In(COPYRIGHT_SIGN, text_lower))
                   /\ In(RESERVED, text_lower) /\ word_count < 300 THEN TRUE
           ELSE FALSE

is_low_value_page(text, page_num, total_pages, nutrition_matches) ==
  IF text = <<>> \/ Len(strip(text)) = 0
  THEN TRUE
  ELSE LET text_lower == strip(lower(text))
           word_count == split_len(text_lower)
           admin_matches == count_in(USDA_ADMIN_PATTERNS, text_lower)
       IN  IF page_num <= 15 /\ admin_matches >= 1 THEN TRUE
           ELSE IF page_num <= 20 /\ nutrition_matches < 3 THEN TRUE
           ELSE IF In(TABLE_OF_CONTENTS, text_lower) /\ In(PAGE, text_lower)
                   /\ word_count < 500 THEN TRUE
           ELSE IF (In(COPYRIGHT, text_lower) \/ In(COPYRIGHT_SIGN, text_lower))
                   /\ In(RESERVED, text_lower) /\ word_count < 300 THEN TRUE
           ELSE FALSE

\* mutant: an adult term adds "adults" whether or not an ageing term is present
life_stage_set_adults_always(text) ==
  LET text_lower == lower(text)
  IN  (IF any_in(pregnant_terms, text_lower) THEN {"pregnant"} ELSE {})
      \cup (IF any_in(breastfeeding_terms, text_lower) THEN {"breastfeeding"} ELSE {})
      \cup (IF any_in(infant_terms, text_lower) THEN {"infants"} ELSE {})
      \cup (IF any_in(child_terms, text_lower) THEN {"children_teens"} ELSE {})
      \cup (IF any_in(adult_terms, text_lower)
            THEN (IF any_in(older_terms, text_lower)
                  THEN {"older_adults", "adults"} ELSE {"adults"})
            ELSE {})
      \cup (IF any_in(athlete_terms, text_lower) THEN {"athletes"} ELSE {})

\* the set life_stages built by detect_life_stages
life_stage_set(text) ==
  LET text_lower == lower(text)
  IN  (IF any_in(pregnant_terms, text_lower) THEN {"pregnant"} ELSE {})
      \cup (IF any_in(breastfeeding_terms, text_lower) THEN {"breastfeeding"} ELSE {})
      \cup (IF any_in(infant_terms, text_lower) THEN {"infants"} ELSE {})
      \cup (IF any_in(child_terms, text_lower) THEN {"children_teens"} ELSE {})
      \cup (IF any_in(adult_terms, text_lower)
            THEN (IF any_in(older_terms, text_lower) THEN {"older_adults"} ELSE {"adults"})
            ELSE {})
      \cup (IF any_in(athlete_terms, text_lower) THEN {"athletes"} ELSE {})

\* the lists detect_life_stages can return
detect_life_stages(text) ==
  IF life_stage_set(text) # {} THEN list_of_set(life_stage_set(text)) ELSE {<<"general">>}

\* ---------------------------------------------------------------------
\* TableProcessor
\* ---------------------------------------------------------------------

\* mutant: the disqualifiers are not consulted
detect_nutrient_tables_ignoring_disqualifier(text) ==
  LET text_lower == lower(text)
      nutrient_count == count_in(nutrient_indicators, text_lower)
  IN  nutrient_count >= 2

detect_nutrient_tables(text) ==
  LET text_lower == lower(text)
      nutrient_count == count_in(nutrient_indicators, text_lower)
      has_disqualifier == any_in(non_nutrient_indicators, text_lower)
  IN  nutrient_count >= 2 /\ ~has_disqualifier

extract_table_content(text) ==
  IF ~detect_nutrient_tables(text) THEN text ELSE wrap(text)

\* ---------------------------------------------------------------------
\* validate_processed_chunks
\* ---------------------------------------------------------------------

\* the condition under which validate_processed_chunks reports a chunk
is_problematic(doc) ==
  LET text_lower == lower(doc.page_content)
      admin_count == count_in(admin_keywords, text_lower)
      nutrition_count == count_in(NUTRITION_KEYWORDS, text_lower)
      word_count == split_len(text_lower)
  IN  \/ (admin_count >= 2 /\ nutrition_count < 2 /\ word_count < 300)
      \/ In(SUGGESTED_CITATION, text_lower)
      \/ (In(DIETARYGUIDELINES_GOV, text_lower) /\ nutrition_count < 3)

\* the tuple appended to problematic_chunks for documents[i] (i counts from 0)
problem_report(i, doc) ==
  LET text_lower == lower(doc.page_content)
  IN  [index |-> i,
       source |-> doc.metadata.source,
       page |-> doc.metadata.page,
       admin_count |-> count_in(admin_keywords, text_lower),
       nutrition_count |-> count_in(NUTRITION_KEYWORDS, text_lower),
       word_count |-> split_len(text_lower)]

RECURSIVE problems_upto(_, _)
\* problematic_chunks after the first n documents
problems_upto(documents, n) ==
  IF n = 0 THEN <<>>
  ELSE IF is_problematic(documents[n])
       THEN Append(problems_upto(documents, n - 1), problem_report(n - 1, documents[n]))
       ELSE problems_upto(documents, n - 1)

validate_processed_chunks(documents) ==
  problems_upto(documents, Len(documents))

\* ---------------------------------------------------------------------
\* process_single_document
\* ---------------------------------------------------------------------

\* os.path.basename of a path [dir, name]
basename(path) ==
  path.name

\* entry.get('topics', ['general'])
entry_topics(entry) ==
  IF "topics" \in entry.keys THEN entry.topics ELSE <<"general">>

\* mutant: the summary keywords are looked for before the nutrient keywords
document_type_summary_first(id) ==
  IF In(summary_id_keywords[1], lower(id)) \/ In(summary_id_keywords[2], lower(id))
  THEN "summary"
  ELSE IF any_in(nutrient_id_keywords, lower(id)) THEN "nutrient_specific"
  ELSE "core_guideline"

\* the document type of a manifest id
document_type(id) ==
  IF any_in(nutrient_id_keywords, lower(id)) THEN "nutrient_specific"
  ELSE IF In(summary_id_keywords[1], lower(id)) \/ In(summary_id_keywords[2], lower(id))
       THEN "summary"
  ELSE "core_guideline"

\* mutant: the medical check runs after the professional check and overrides it
safety_level_medical_last(nutrition_matches, text_lower) ==
  IF nutrition_matches < 3 THEN "administrative"
  ELSE LET after_professional ==
             IF any_in(professional_triggers, text_lower)
             THEN "professional_use_only" ELSE "general"
       IN  IF any_in(medical_triggers, text_lower)
           THEN "medical_caution" ELSE after_professional

\* mutant: the medical check is missing
safety_level_without_medical(nutrition_matches, text_lower) ==
  IF nutrition_matches < 3 THEN "administrative"
  ELSE IF any_in(professional_triggers, text_lower)
       THEN "professional_use_only" ELSE "general"

\* the safety level of an admitted page
safety_level_of(nutrition_matches, text_lower) ==
  IF nutrition_matches < 3 THEN "administrative"
  ELSE LET after_medical ==
             IF any_in(medical_triggers, text_lower) THEN "medical_caution" ELSE "general"
       IN  IF any_in(professional_triggers, text_lower)
           THEN "professional_use_only" ELSE after_medical

\* the possible values of life_stages for an admitted page
life_stages_of(nutrition_matches, text) ==
  IF nutrition_matches >= 3 THEN detect_life_stages(text) ELSE {<<"general">>}

\* mutant: the page number is the 0-based index into reader.pages
make_document_zero_based(entry, path, doc_type, text, page_num, nutrition_matches, life_stages) ==
  LET contains_tables == detect_nutrient_tables(text)
  IN  [page_content |-> IF contains_tables THEN extract_table_content(text) ELSE text,
       metadata |->
         [source |-> entry.id,
          source_file |-> basename(path),
          page |-> page_num - 1,
          document_type |-> doc_type,
          topics |-> entry_topics(entry),
          life_stages |-> life_stages,
          contains_tables |-> contains_tables,
          safety_level |-> safety_level_of(nutrition_matches, lower(text))]]

\* the Document built for an admitted page
make_document(entry, path, doc_type, text, page_num, nutrition_matches, life_stages) ==
  LET contains_tables == detect_nutrient_tables(text)
  IN  [page_content |-> IF contains_tables THEN extract_table_content(text) ELSE text,
       metadata |->
         [source |-> entry.id,
          source_file |-> basename(path),
          page |-> page_num,
          document_type |-> doc_type,
          topics |-> entry_topics(entry),
          life_stages |-> life_stages,
          contains_tables |-> contains_tables,
          safety_level |-> safety_level_of(nutrition_matches, lower(text))]]

\* the body of the page loop: the possible lists of documents page page_num adds
process_page(entry, pdf, doc_type, page_num) ==
  LET page == pdf.pages[page_num]
      total_pages == Len(pdf.pages)
  IN  IF page.raises THEN {<<>>}
      ELSE LET text == page.text
               nutrition_matches == count_in(NUTRITION_KEYWORDS, lower(text))
           IN  IF is_low_value_page(text, page_num, total_pages, nutrition_matches)
               THEN {<<>>}
               ELSE {<<make_document(entry, entry.path, doc_type, text, page_num,
                                     nutrition_matches, ls)>> :
                       ls \in life_stages_of(nutrition_matches, text)}

RECURSIVE process_pages_prepending(_, _, _, _)
\* mutant: the chunk of a page is put in front of the chunks of the pages before it
process_pages_prepending(entry, pdf, doc_type, n) ==
  IF n = 0 THEN {<<>>}
  ELSE {added \o before : before \in process_pages_prepending(entry, pdf, doc_type, n - 1),
                          added \in process_page(entry, pdf, doc_type, n)}

RECURSIVE process_pages(_, _, _, _)
\* the possible values of processed_docs after pages 1..n
process_pages(entry, pdf, doc_type, n) ==
  IF n = 0 THEN {<<>>}
  ELSE {before \o added : before \in process_pages(entry, pdf, doc_type, n - 1),
                          added \in process_page(entry, pdf, doc_type, n)}

\* mutant: an exception on one page is not caught and ends the document
process_single_document_aborting(entry, fs) ==
  IF "path" \notin entry.keys
  THEN {[exc |-> "KeyError", docs |-> <<>>]}
  ELSE IF ~fs[entry.path].exists
  THEN {[exc |-> "FileNotFoundError", docs |-> <<>>]}
  ELSE IF ~fs[entry.path].readable
  THEN {[exc |-> "ValueError", docs |-> <<>>]}
  ELSE IF "id" \notin entry.keys
  THEN {[exc |-> "KeyError", docs |-> <<>>]}
  ELSE IF \E n \in DOMAIN fs[entry.path].pages : fs[entry.path].pages[n].raises
  THEN {[exc |-> "Exception", docs |-> <<>>]}
  ELSE {[exc |-> "none", docs |-> d] :
          d \in process_pages(entry, fs[entry.path], document_type(entry.id),
                              Len(fs[entry.path].pages))}

\* the possible outcomes of process_single_document(entry) on the file system fs
process_single_document(entry, fs) ==
  IF "path" \notin entry.keys
  THEN {[exc |-> "KeyError", docs |-> <<>>]}
  ELSE IF ~fs[entry.path].exists
  THEN {[exc |-> "FileNotFoundError", docs |-> <<>>]}
  ELSE IF ~fs[entry.path].readable
  THEN {[exc |-> "ValueError", docs |-> <<>>]}
  ELSE IF "id" \notin entry.keys
  THEN {[exc |-> "KeyError", docs |-> <<>>]}
  ELSE {[exc |-> "none", docs |-> d] :
          d \in process_pages(entry, fs[entry.path], document_type(entry.id),
                              Len(fs[entry.path].pages))}

\* ---------------------------------------------------------------------
\* load_and_preprocess_documents
\* ---------------------------------------------------------------------

Returned(value) ==
  [kind |-> "return", exc |-> "none", msg |-> "", value |-> value]

Raised(exc, msg) ==
  [kind |-> "raise", exc |-> exc, msg |-> msg, value |-> <<>>]

NoOutcome ==
  [kind |-> "running", exc |-> "none", msg |-> "", value |-> <<>>]

\* mutant: a manifest that does not parse is read as an empty list
manifest_load_lenient(m) ==
  IF m.kind = "missing" THEN Raised("FileNotFoundError", "Manifest file not found")
  ELSE NoOutcome

\* the outcome of reading the manifest: the exception raised, or NoOutcome
manifest_load(m) ==
  IF m.kind = "missing" THEN Raised("FileNotFoundError", "Manifest file not found")
  ELSE IF m.kind = "malformed" THEN Raised("ValueError", "Manifest load error")
  ELSE IF m.kind = "null" THEN Raised("ValueError", "Manifest load error")
  ELSE NoOutcome

\* all_documents = [] at the start of a call
fresh_documents ==
  <<>>

RECURSIVE keep_unlisted_one_based(_, _, _)
\* mutant: the indices of problematic chunks are read as 1-based positions
keep_unlisted_one_based(documents, indices_to_remove, n) ==
  IF n = 0 THEN <<>>
  ELSE IF n \in indices_to_remove
       THEN keep_unlisted_one_based(documents, indices_to_remove, n - 1)
       ELSE Append(keep_unlisted_one_based(documents, indices_to_remove, n - 1), documents[n])

RECURSIVE keep_unlisted(_, _, _)
\* [doc for i, doc in enumerate(documents) if i not in indices_to_remove], first n documents
keep_unlisted(documents, indices_to_remove, n) ==
  IF n = 0 THEN <<>>
  ELSE IF (n - 1) \in indices_to_remove
       THEN keep_unlisted(documents, indices_to_remove, n - 1)
       ELSE Append(keep_unlisted(documents, indices_to_remove, n - 1), documents[n])

\* mutant: the "never return empty set" check is missing
validation_step_without_net(documents, raises) ==
  IF raises THEN Returned(documents)
  ELSE LET problematic == validate_processed_chunks(documents)
       IN  IF problematic # <<>>
           THEN Returned(keep_unlisted(documents,
                                       {problematic[k].index : k \in DOMAIN problematic},
                                       Len(documents)))
           ELSE Returned(documents)

\* the validation step of load: how load ends for the aggregated documents
validation_step(documents, raises) ==
  IF raises THEN Returned(documents)
  ELSE LET problematic == validate_processed_chunks(documents)
       IN  IF problematic # <<>>
           THEN LET indices_to_remove == {problematic[k].index : k \in DOMAIN problematic}
                    cleaned_documents ==
                      keep_unlisted(documents, indices_to_remove, Len(documents))
                IN  IF cleaned_documents = <<>>
                    THEN Raised("ValueError", "No valid chunks remained after validation")
                    ELSE Returned(cleaned_documents)
           ELSE Returned(documents)

\* mutant: the FileNotFoundError of a missing document is not caught
handle_entry_uncaught(entry, fs) ==
  IF "id" \notin entry.keys
  THEN {[caught |-> "KeyError", docs |-> <<>>, escapes |-> "KeyError"]}
  ELSE IF "path" \notin entry.keys
  THEN {[caught |-> "KeyError", docs |-> <<>>, escapes |-> "none"]}
  ELSE IF ~fs[entry.path].exists
  THEN {[caught |-> "FileNotFoundError", docs |-> <<>>, escapes |-> "FileNotFoundError"]}
  ELSE {[caught |-> r.exc, docs |-> r.docs, escapes |-> "none"] :
          r \in process_single_document(entry, fs)}

\* what handling one manifest entry does: the exception caught (or "none"), the
\* documents it adds, and the exception the except clause itself raises (or "none")
handle_entry(entry, fs) ==
  IF "id" \notin entry.keys
  THEN {[caught |-> "KeyError", docs |-> <<>>, escapes |-> "KeyError"]}
  ELSE IF "path" \notin entry.keys
  THEN {[caught |-> "KeyError", docs |-> <<>>, escapes |-> "none"]}
  ELSE IF ~fs[entry.path].exists
  THEN {[caught |-> "FileNotFoundError", docs |-> <<>>, escapes |-> "none"]}
  ELSE {[caught |-> r.exc, docs |-> r.docs, escapes |-> "none"] :
          r \in process_single_document(entry, fs)}

\* ---------------------------------------------------------------------
\* Inputs
\* ---------------------------------------------------------------------

TextPage(text) ==
  [raises |-> FALSE, text |-> text]

\* a page whose extract_text() raises
FAILING_PAGE ==
  [raises |-> TRUE, text |-> <<>>]

\* n pages without text
BlankPages(n) ==
  [i \in 1..n |-> TextPage(T_EMPTY)]

Pdf(pages) ==
  [exists |-> TRUE, readable |-> TRUE, pages |-> pages]

NO_FILE ==
  [exists |-> FALSE, readable |-> FALSE, pages |-> <<>>]

CORRUPT_FILE ==
  [exists |-> TRUE, readable |-> FALSE, pages |-> <<>>]

Path(name) ==
  [dir |-> "docs", name |-> name]

Entry(id, name) ==
  [keys |-> {"id", "path"}, id |-> id, path |-> Path(name), topics |-> <<>>]

\* the files of the model's corpus directory
DISK ==
  [p \in {Path(n) : n \in {"dga.pdf", "dga_b.pdf", "dga_c.pdf", "dga_d.pdf", "missing.pdf",
                           "corrupt.pdf", "late.pdf", "cite.pdf", "torn.pdf", "gov.pdf"}} |->
     CASE p.name = "dga.pdf"     -> Pdf(<<TextPage(T_TOC), TextPage(T_SODIUM)>>)
       [] p.name = "dga_b.pdf"   -> Pdf(<<TextPage(T_TOC), TextPage(T_GENERAL)>>)
       [] p.name = "dga_c.pdf"   -> Pdf(<<TextPage(T_TOC), TextPage(T_FIGURE)>>)
       [] p.name = "dga_d.pdf"   -> Pdf(<<TextPage(T_TOC), TextPage(T_OLDER)>>)
       [] p.name = "missing.pdf" -> NO_FILE
       [] p.name = "corrupt.pdf" -> CORRUPT_FILE
       [] p.name = "late.pdf"    -> Pdf(BlankPages(20) \o <<TextPage(T_CITE), TextPage(T_INFANT)>>)
       [] p.name = "cite.pdf"    -> Pdf(BlankPages(20) \o <<TextPage(T_CITE)>>)
       [] p.name = "torn.pdf"    -> Pdf(<<TextPage(T_GENERAL), FAILING_PAGE, TextPage(T_BOTH)>>)
       [] p.name = "gov.pdf"     -> Pdf(BlankPages(20) \o <<TextPage(T_GOV), TextPage(T_BOTH_LOW),
                                                          TextPage(T_CITE_RICH)>>)]

\* the manifest entries of the model
ENTRIES ==
  { [Entry(ID_DGA, "dga.pdf") EXCEPT !.keys = {"id", "path", "topics"}, !.topics = <<"sodium">>],
    Entry(ID_DGA, "dga_b.pdf"),
    Entry(ID_DGA, "dga_c.pdf"),
    Entry(ID_DGA, "dga_d.pdf"),
    Entry(ID_SUGAR, "missing.pdf"),
    Entry(ID_EXEC, "corrupt.pdf"),
    Entry(ID_SODIUM_SUMMARY, "late.pdf"),
    Entry(ID_EXEC, "cite.pdf"),
    Entry(ID_SUGAR, "torn.pdf"),
    Entry(ID_EXEC, "gov.pdf"),
    [Entry(ID_SUGAR, "torn.pdf") EXCEPT !.keys = {"path"}],
    [Entry(ID_SUGAR, "torn.pdf") EXCEPT !.keys = {"id"}] }

\* the manifests of the model: no file, a file that is not YAML, an empty file (None),
\* and every list of at most MaxDocs entries
MANIFESTS ==
  {[kind |-> k, corpus |-> <<>>] : k \in {"missing", "malformed", "null"}}
  \cup {[kind |-> "list", corpus |-> c] : c \in UNION {[1..n -> ENTRIES] : n \in 0..MaxDocs}}

\* the page numbers before which the generated PDFs are blank
LEAD_PAGES ==
  {0, 14, 15, 19, 20}

PAGES ==
  {TextPage(t) : t \in TEXTS} \cup {FAILING_PAGE}

\* PDFs made of blank lead pages followed by at most MaxTail pages
GENERATED_PDFS ==
  {Pdf(BlankPages(lead) \o tail) :
     lead \in LEAD_PAGES, tail \in UNION {[1..n -> PAGES] : n \in 1..MaxTail}}

\* ---------------------------------------------------------------------
\* Spec: load_and_preprocess_documents, called twice
\* ---------------------------------------------------------------------

Init ==
  /\ files = DISK
  /\ manifest \in MANIFESTS
  /\ validation_raises \in BOOLEAN
  /\ pc = "start"
  /\ idx = 1
  /\ all_documents = <<>>
  /\ successful_docs = 0
  /\ failed_docs = 0
  /\ log = <<>>
  /\ outcome = NoOutcome
  /\ run = 1
  /\ first = NoOutcome
  /\ doc_entry = Entry(ID_DGA, "dga.pdf")
  /\ doc_outcome = [exc |-> "none", docs |-> <<>>]

\* lines 319-338: read the manifest
LoadManifest ==
  /\ pc = "start"
  /\ IF manifest_load(manifest).kind = "raise"
     THEN /\ pc' = "done"
          /\ outcome' = manifest_load(manifest)
          /\ UNCHANGED <<idx, all_documents, successful_docs, failed_docs>>
     ELSE /\ pc' = IF Len(manifest.corpus) = 0 THEN "validate" ELSE "loop"
          /\ outcome' = outcome
          /\ idx' = 1
          /\ all_documents' = fresh_documents
          /\ successful_docs' = 0
          /\ failed_docs' = 0
  /\ UNCHANGED <<files, manifest, validation_raises, log, run, first, doc_entry, doc_outcome>>

\* lines 340-359: one iteration of "for entry in corpus"
ProcessEntry ==
  /\ pc = "loop"
  /\ idx <= Len(manifest.corpus)
  /\ \E h \in handle_entry(manifest.corpus[idx], files) :
       IF h.caught = "none"
       THEN /\ all_documents' = all_documents \o h.docs
            /\ successful_docs' = successful_docs + 1
            /\ failed_docs' = failed_docs
            /\ log' = Append(log, [entry |-> idx, status |-> "ok", chunks |-> Len(h.docs)])
            /\ pc' = IF idx = Len(manifest.corpus) THEN "validate" ELSE "loop"
            /\ outcome' = outcome
       ELSE /\ all_documents' = all_documents
            /\ successful_docs' = successful_docs
            /\ failed_docs' = failed_docs + 1
            /\ IF h.escapes # "none"
               THEN /\ log' = log
                    /\ pc' = "done"
                    /\ outcome' = Raised(h.escapes, "id")
               ELSE /\ log' = Append(log, [entry |-> idx, status |-> "failed", chunks |-> 0])
                    /\ pc' = IF idx = Len(manifest.corpus) THEN "validate" ELSE "loop"
                    /\ outcome' = outcome
  /\ idx' = idx + 1
  /\ UNCHANGED <<files, manifest, validation_raises, run, first, doc_entry, doc_outcome>>

\* lines 361-403: validate the aggregated chunks and return
Validate ==
  /\ pc = "validate"
  /\ outcome' = validation_step(all_documents, validation_raises)
  /\ pc' = "done"
  /\ UNCHANGED <<files, manifest, validation_raises, idx, all_documents, successful_docs,
                 failed_docs, log, run, first, doc_entry, doc_outcome>>

\* the caller runs load again on the unchanged manifest and files
Rerun ==
  /\ pc = "done"
  /\ run = 1
  /\ run' = 2
  /\ first' = outcome
  /\ pc' = "start"
  /\ outcome' = NoOutcome
  /\ log' = <<>>
  /\ UNCHANGED <<files, manifest, validation_raises, idx, all_documents, successful_docs,
                 failed_docs, doc_entry, doc_outcome>>

Next ==
  \/ LoadManifest
  \/ ProcessEntry
  \/ Validate
  \/ Rerun

Spec ==
  Init /\ [][Next]_vars

\* ---------------------------------------------------------------------
\* SpecDoc: process_single_document on one generated PDF
\* ---------------------------------------------------------------------

DOC_PATH ==
  Path("x.pdf")

InitDoc ==
  /\ files \in {[p \in {DOC_PATH} |-> f] :
                  f \in GENERATED_PDFS \cup {DISK[q] : q \in DOMAIN DISK}
                       \cup {NO_FILE, CORRUPT_FILE}}
  /\ doc_entry \in {Entry(id, "x.pdf") : id \in IDS}
  /\ doc_outcome = [exc |-> "none", docs |-> <<>>]
  /\ pc = "call"
  /\ manifest = [kind |-> "missing", corpus |-> <<>>]
  /\ validation_raises = FALSE
  /\ idx = 1
  /\ all_documents = <<>>
  /\ successful_docs = 0
  /\ failed_docs = 0
  /\ log = <<>>
  /\ outcome = NoOutcome
  /\ run = 1
  /\ first = NoOutcome

\* lines 214-312: the call of process_single_document
ProcessDocument ==
  /\ pc = "call"
  /\ doc_outcome' \in process_single_document(doc_entry, files)
  /\ pc' = "returned"
  /\ UNCHANGED <<files, manifest, validation_raises, idx, all_documents, successful_docs,
                 failed_docs, log, outcome, run, first, doc_entry>>

NextDoc ==
  ProcessDocument

SpecDoc ==
  InitDoc /\ [][NextDoc]_vars

\* ---------------------------------------------------------------------
\* Properties: common definitions
\* ---------------------------------------------------------------------

NutritionCount(text) ==
  count_in(NUTRITION_KEYWORDS, lower(text))

HasMedicalTrigger(text) ==
  any_in(medical_triggers, lower(text))

HasProfessionalTrigger(text) ==
  any_in(professional_triggers, lower(text))

HasAdultTerm(text) ==
  any_in(adult_terms, lower(text))

\* SpecDoc: process_single_document returned a list of chunks
DocReturned ==
  pc = "returned" /\ doc_outcome.exc = "none"

DocChunks ==
  Range(doc_outcome.docs)

\* SpecDoc: the text of the page a returned chunk was made from
DocPageText(chunk) ==
  files[doc_entry.path].pages[chunk.metadata.page].text

\* Spec: the loop over the manifest ended and the validation step ended the call
ValidationRan ==
  pc = "done" /\ manifest.kind = "list" /\ Len(log) = Len(manifest.corpus)

AllProblematic(documents) ==
  \A i \in DOMAIN documents : is_problematic(documents[i])

\* ---------------------------------------------------------------------
\* C1
\* ---------------------------------------------------------------------

\* C1: for a non-empty aggregated chunk list the validation step never returns an
\* empty sequence; when the validator flags every chunk, load raises ValueError.
C1_ValidationNeverReturnsEmpty ==
  (ValidationRan /\ all_documents # <<>>) =>
    /\ ~(outcome.kind = "return" /\ outcome.value = <<>>)
    /\ (~validation_raises /\ AllProblematic(all_documents)) =>
         (outcome.kind = "raise" /\ outcome.exc = "ValueError")

C1_Witness ==
  /\ ValidationRan
  /\ all_documents # <<>>
  /\ ~validation_raises
  /\ AllProblematic(all_documents)
  /\ outcome.kind = "raise"

\* ---------------------------------------------------------------------
\* C2
\* ---------------------------------------------------------------------

BothTriggers(chunk) ==
  HasMedicalTrigger(DocPageText(chunk)) /\ HasProfessionalTrigger(DocPageText(chunk))

\* C2 as claimed: every chunk of a page with a medical and a professional-use trigger
\* has safety_level professional_use_only.
C2_BothTriggersAlwaysProfessional ==
  DocReturned =>
    \A c \in DocChunks :
      BothTriggers(c) => c.metadata.safety_level = "professional_use_only"

\* C2 amended: every chunk of a page with a medical and a professional-use trigger has
\* safety_level professional_use_only when the page has at least 3 nutrition keywords
\* and administrative when it has fewer; it is never medical_caution.
C2_BothTriggersByNutritionCount ==
  DocReturned =>
    \A c \in DocChunks :
      BothTriggers(c) =>
        /\ c.metadata.safety_level # "medical_caution"
        /\ c.metadata.safety_level =
             IF NutritionCount(DocPageText(c)) >= 3
             THEN "professional_use_only" ELSE "administrative"

C2_Witness ==
  /\ DocReturned
  /\ \E c \in DocChunks :
       BothTriggers(c) /\ c.metadata.safety_level = "professional_use_only"
  /\ \E c \in DocChunks :
       BothTriggers(c) /\ c.metadata.safety_level = "administrative"

\* ---------------------------------------------------------------------
\* C3
\* ---------------------------------------------------------------------

PrecedenceLevel(text) ==
  IF NutritionCount(text) < 3 THEN "administrative"
  ELSE IF HasProfessionalTrigger(text) THEN "professional_use_only"
  ELSE IF HasMedicalTrigger(text) THEN "medical_caution"
  ELSE "general"

\* C3: the safety_level of every emitted chunk is administrative if the page has fewer
\* than 3 nutrition keywords, else professional_use_only if a professional trigger is
\* present, else medical_caution if a medical trigger is present, else general; it is
\* one of these four values.
C3_SafetyLevelPrecedence ==
  DocReturned =>
    \A c \in DocChunks :
      /\ c.metadata.safety_level = PrecedenceLevel(DocPageText(c))
      /\ c.metadata.safety_level \in
           {"administrative", "general", "medical_caution", "professional_use_only"}

C3_Witness ==
  /\ DocReturned
  /\ \E c \in DocChunks : c.metadata.safety_level = "medical_caution"
  /\ \E c \in DocChunks : c.metadata.safety_level = "general"

\* ---------------------------------------------------------------------
\* C4
\* ---------------------------------------------------------------------

\* the manifest has the single entry dga_2020, whose PDF has two pages: a table of
\* contents, then a page with at least 3 nutrition keywords and no trigger
ScenarioA ==
  /\ manifest.kind = "list"
  /\ Len(manifest.corpus) = 1
  /\ {"id", "path"} \subseteq manifest.corpus[1].keys
  /\ manifest.corpus[1].id = ID_DGA
  /\ LET f == files[manifest.corpus[1].path]
     IN  /\ f.exists /\ f.readable
         /\ Len(f.pages) = 2
         /\ ~f.pages[1].raises
         /\ In(TABLE_OF_CONTENTS, lower(f.pages[1].text))
         /\ ~f.pages[2].raises
         /\ NutritionCount(f.pages[2].text) >= 3
         /\ ~HasMedicalTrigger(f.pages[2].text)
         /\ ~HasProfessionalTrigger(f.pages[2].text)

ScenarioAPage2 ==
  files[manifest.corpus[1].path].pages[2].text

\* page 2 has no administrative phrase, is no copyright notice, and names no life
\* stage other than adults
ScenarioAPlainPage2 ==
  LET text_lower == lower(ScenarioAPage2)
  IN  /\ count_in(USDA_ADMIN_PATTERNS, strip(text_lower)) = 0
      /\ ~((In(COPYRIGHT, text_lower) \/ In(COPYRIGHT_SIGN, text_lower))
           /\ In(RESERVED, text_lower))
      /\ ~any_in(pregnant_terms, text_lower)
      /\ ~any_in(breastfeeding_terms, text_lower)
      /\ ~any_in(infant_terms, text_lower)
      /\ ~any_in(child_terms, text_lower)
      /\ ~any_in(older_terms, text_lower)
      /\ ~any_in(athlete_terms, text_lower)

ScenarioAResult(doc_type) ==
  /\ outcome.kind = "return"
  /\ Len(outcome.value) = 1
  /\ outcome.value[1].metadata.page = 2
  /\ outcome.value[1].metadata.document_type = doc_type
  /\ outcome.value[1].metadata.safety_level = "general"
  /\ outcome.value[1].metadata.life_stages =
       IF HasAdultTerm(ScenarioAPage2) THEN <<"adults">> ELSE <<"general">>

\* C4 as claimed: in scenario A load returns exactly one chunk, for page 2, with
\* document_type nutrient_specific, safety_level general and life_stages [adults] if
\* an adult term is present, else [general].
C4_ScenarioA_NutrientSpecific ==
  (pc = "done" /\ ScenarioA) => ScenarioAResult("nutrient_specific")

\* C4 amended: in scenario A, when page 2 also has no administrative phrase, is no
\* copyright notice and names no life stage other than adults, load returns exactly
\* one chunk, for page 2, with document_type core_guideline, safety_level general and
\* life_stages [adults] if an adult term is present, else [general].
C4_ScenarioA_CoreGuideline ==
  (pc = "done" /\ ScenarioA /\ ScenarioAPlainPage2) => ScenarioAResult("core_guideline")

C4_Witness ==
  /\ pc = "done"
  /\ ScenarioA
  /\ ScenarioAPlainPage2
  /\ HasAdultTerm(ScenarioAPage2)
  /\ outcome.kind = "return"
  /\ Len(outcome.value) = 1
  /\ outcome.value[1].metadata.life_stages = <<"adults">>

\* ---------------------------------------------------------------------
\* C5
\* ---------------------------------------------------------------------

\* C5: load never returns an empty chunk sequence.
C5_NeverReturnsEmpty ==
  pc = "done" => ~(outcome.kind = "return" /\ outcome.value = <<>>)

\* ---------------------------------------------------------------------
\* C6
\* ---------------------------------------------------------------------

\* the page filter admitted the page the chunk was made from
AdmittedByPageFilter(chunk) ==
  LET f == files[Path(chunk.metadata.source_file)]
      page == f.pages[chunk.metadata.page]
  IN  /\ ~page.raises
      /\ ~is_low_value_page(page.text, chunk.metadata.page, Len(f.pages),
                            NutritionCount(page.text))

\* C6: every chunk load returns was admitted by the page filter and is not flagged by
\* the validator's predicate, on every return path.
C6_ReturnedChunksPassedBothGates ==
  (pc = "done" /\ outcome.kind = "return") =>
    \A c \in Range(outcome.value) : AdmittedByPageFilter(c) /\ ~is_problematic(c)

\* ---------------------------------------------------------------------
\* C7
\* ---------------------------------------------------------------------

\* the flag as the claim states it
ClaimedFlag(doc) ==
  LET text_lower == lower(doc.page_content)
      admin_count == count_in(admin_keywords, text_lower)
      nutrition_count == count_in(NUTRITION_KEYWORDS, text_lower)
      word_count == split_len(text_lower)
  IN  \/ (admin_count >= 2 /\ nutrition_count < 2 /\ word_count < 300)
      \/ occurs(SUGGESTED_CITATION, text_lower)
      \/ (occurs(DIETARYGUIDELINES_GOV, text_lower) /\ nutrition_count < 3)

NotClaimedFlag(doc) ==
  ~ClaimedFlag(doc)

HasSuggestedCitation(doc) ==
  occurs(SUGGESTED_CITATION, lower(doc.page_content))

\* C7: when the validator runs, load returns the aggregated chunks without the
\* flagged ones, in their order (and raises when none is left); a chunk containing
\* "suggested citation" is never returned.
C7_RemovesExactlyFlagged ==
  (ValidationRan /\ ~validation_raises) =>
    /\ SelectSeq(all_documents, NotClaimedFlag) # <<>> =>
         outcome = Returned(SelectSeq(all_documents, NotClaimedFlag))
    /\ (all_documents # <<>> /\ SelectSeq(all_documents, NotClaimedFlag) = <<>>) =>
         outcome.kind = "raise"
    /\ \A c \in Range(all_documents) :
         HasSuggestedCitation(c) => c \notin Range(outcome.value)

C7_Witness ==
  /\ ValidationRan
  /\ ~validation_raises
  /\ outcome.kind = "return"
  /\ outcome.value # <<>>
  /\ \E c \in Range(all_documents) :
       /\ HasSuggestedCitation(c)
       /\ count_in(NUTRITION_KEYWORDS, lower(c.page_content)) >= 3
       /\ c \notin Range(outcome.value)
  /\ \E c \in Range(all_documents) : ~ClaimedFlag(c) /\ c \in Range(outcome.value)

\* ---------------------------------------------------------------------
\* C8
\* ---------------------------------------------------------------------

\* C8: the second call of load on the unchanged manifest and files ends as the first
\* did, with an identical chunk sequence, the order of life_stages included.
C8_SecondRunIdentical ==
  (run = 2 /\ pc = "done") => outcome = first

\* ---------------------------------------------------------------------
\* C9
\* ---------------------------------------------------------------------

MissingDocument(entry) ==
  {"id", "path"} \subseteq entry.keys /\ ~files[entry.path].exists

ReadableDocument(entry) ==
  /\ {"id", "path"} \subseteq entry.keys
  /\ files[entry.path].exists
  /\ files[entry.path].readable

RECURSIVE ChunksLogged(_)
\* the number of chunks the first n handled entries added
ChunksLogged(n) ==
  IF n = 0 THEN 0 ELSE ChunksLogged(n - 1) + log[n].chunks

\* the chunks all_documents holds for the k-th manifest entry
ChunksOfEntry(k) ==
  SubSeq(all_documents, ChunksLogged(k - 1) + 1, ChunksLogged(k))

\* C9: an entry whose path does not exist is recorded as failed with zero chunks, its
\* FileNotFoundError never leaves load, every later entry is still handled, and the
\* chunks of every readable document are aggregated.
C9_MissingDocumentIsSkipped ==
  manifest.kind = "list" =>
    /\ \A k \in DOMAIN log :
         MissingDocument(manifest.corpus[k]) =>
           (log[k].status = "failed" /\ log[k].chunks = 0)
    /\ outcome.exc # "FileNotFoundError"
    /\ failed_docs >= Cardinality({k \in DOMAIN log : MissingDocument(manifest.corpus[k])})
    /\ (pc \in {"validate", "done"}
        /\ \A k \in DOMAIN manifest.corpus : "id" \in manifest.corpus[k].keys) =>
         /\ Len(log) = Len(manifest.corpus)
         /\ Len(all_documents) = ChunksLogged(Len(log))
         /\ \A k \in DOMAIN log :
              ReadableDocument(manifest.corpus[k]) =>
                /\ log[k].status = "ok"
                /\ \E r \in process_single_document(manifest.corpus[k], files) :
                     ChunksOfEntry(k) = r.docs

C9_Witness ==
  /\ pc = "done"
  /\ manifest.kind = "list"
  /\ Len(manifest.corpus) = 2
  /\ MissingDocument(manifest.corpus[1])
  /\ ReadableDocument(manifest.corpus[2])
  /\ Len(log) = 2
  /\ log[1].status = "failed"
  /\ outcome.kind = "return"
  /\ outcome.value # <<>>

\* ---------------------------------------------------------------------
\* C10
\* ---------------------------------------------------------------------

\* C10: with a manifest that is missing or does not parse, load raises
\* (FileNotFoundError for a missing manifest, ValueError otherwise) before any entry
\* is handled, and returns nothing.
C10_BadManifestIsFatal ==
  manifest.kind \in {"missing", "malformed", "null"} =>
    /\ pc \in {"start", "done"}
    /\ log = <<>>
    /\ all_documents = <<>>
    /\ successful_docs = 0
    /\ failed_docs = 0
    /\ pc = "done" =>
         /\ outcome.kind = "raise"
         /\ outcome.value = <<>>
         /\ outcome.exc =
              IF manifest.kind = "missing" THEN "FileNotFoundError" ELSE "ValueError"

C10_Witness ==
  /\ pc = "done"
  /\ manifest.kind = "malformed"
  /\ outcome.kind = "raise"
  /\ outcome.exc = "ValueError"

\* ---------------------------------------------------------------------
\* C11
\* ---------------------------------------------------------------------

\* SpecDoc: the pages of the PDF process_single_document was called on
DocPages ==
  files[doc_entry.path].pages

\* SpecDoc: extracting page n raises
PageFails(n) ==
  DocPages[n].raises

\* SpecDoc: page n is extracted and the page filter does not skip it
PageAdmitted(n) ==
  /\ ~PageFails(n)
  /\ ~is_low_value_page(DocPages[n].text, n, Len(DocPages), NutritionCount(DocPages[n].text))

\* SpecDoc: the positions in the returned list of the chunks made from page n
ChunksOfPage(n) ==
  {i \in DOMAIN doc_outcome.docs : doc_outcome.docs[i].metadata.page = n}

\* C11: in process_single_document a page whose extraction fails contributes no
\* chunk and does not end the document: the call on a readable PDF returns, and
\* every other page, before or after the failing one, is processed as usual and
\* its chunk (if the page is admitted) is returned.
C11_PageFailureIsSkipped ==
  (pc = "returned" /\ files[doc_entry.path].exists /\ files[doc_entry.path].readable) =>
    /\ doc_outcome.exc = "none"
    /\ \A n \in DOMAIN DocPages :
         IF PageFails(n) THEN ChunksOfPage(n) = {}
         ELSE IF PageAdmitted(n)
         THEN \E i \in ChunksOfPage(n) :
                doc_outcome.docs[i].page_content = extract_table_content(DocPages[n].text)
         ELSE ChunksOfPage(n) = {}

\* a returned document with a failing page between two pages that gave a chunk
C11_Witness ==
  /\ DocReturned
  /\ \E n \in DOMAIN DocPages :
       /\ PageFails(n)
       /\ \E m \in 1..(n - 1) : ChunksOfPage(m) # {}
       /\ \E m \in (n + 1)..Len(DocPages) : ChunksOfPage(m) # {}

\* ---------------------------------------------------------------------
\* C12
\* ---------------------------------------------------------------------

\* Spec: the manifest is a list of entries with ids, no id given twice
UniqueIds ==
  /\ manifest.kind = "list"
  /\ \A i \in DOMAIN manifest.corpus : "id" \in manifest.corpus[i].keys
  /\ \A i, j \in DOMAIN manifest.corpus :
       manifest.corpus[i].id = manifest.corpus[j].id => i = j

\* Spec: the positions in the manifest of the entries with the chunk's source id
EntriesOf(chunk) ==
  {k \in DOMAIN manifest.corpus : manifest.corpus[k].id = chunk.metadata.source}

\* Spec: the position in the manifest of the entry a chunk comes from (unique ids)
EntryOf(chunk) ==
  CHOOSE k \in EntriesOf(chunk) : TRUE

\* Spec: the positions of a chunk in all_documents, the chunks before validation
PositionsOf(chunk) ==
  {p \in DOMAIN all_documents : all_documents[p] = chunk}

PositionOf(chunk) ==
  CHOOSE p \in PositionsOf(chunk) : TRUE

\* chunk a stands before chunk b in document order, then page order
InCorpusOrder(a, b) ==
  \/ EntryOf(a) < EntryOf(b)
  \/ EntryOf(a) = EntryOf(b) /\ a.metadata.page < b.metadata.page

\* C12: for a manifest with unique ids, the corpus load returns is in manifest
\* order and, within one document, in strictly increasing page_number, with
\* 1 <= page_number <= total pages of the document; hence no two chunks share
\* source_id and page_number; the chunks left by the validator's removal stand
\* in the order they had before it.
C12_CorpusOrder ==
  (pc = "done" /\ outcome.kind = "return" /\ UniqueIds) =>
    LET value == outcome.value
    IN  /\ \A i \in DOMAIN value :
             /\ Cardinality(EntriesOf(value[i])) = 1
             /\ value[i].metadata.page >= 1
             /\ value[i].metadata.page
                  <= Len(files[manifest.corpus[EntryOf(value[i])].path].pages)
             /\ Cardinality(PositionsOf(value[i])) = 1
        /\ \A i, j \in DOMAIN value :
             i < j => /\ InCorpusOrder(value[i], value[j])
                      /\ ~(/\ value[i].metadata.source = value[j].metadata.source
                            /\ value[i].metadata.page = value[j].metadata.page)
                      /\ PositionOf(value[i]) < PositionOf(value[j])
        /\ \A p, q \in DOMAIN all_documents :
             p < q => InCorpusOrder(all_documents[p], all_documents[q])

\* load returned chunks of two documents, two of them of the same document, after
\* the validator removed a chunk that stood before them
C12_Witness ==
  /\ pc = "done" /\ outcome.kind = "return" /\ UniqueIds
  /\ ~validation_raises
  /\ Len(outcome.value) < Len(all_documents)
  /\ is_problematic(all_documents[1])
  /\ \E i, j, k \in DOMAIN outcome.value :
       /\ i < j /\ j < k
       /\ outcome.value[i].metadata.source # outcome.value[j].metadata.source
       /\ outcome.value[j].metadata.source = outcome.value[k].metadata.source

\* ---------------------------------------------------------------------
\* C13
\* ---------------------------------------------------------------------

\* the number of nutrient-indicator terms present in a text, case-insensitively
NutrientIndicatorCount(text) ==
  Cardinality({i \in DOMAIN nutrient_indicators :
                 occurs(nutrient_indicators[i], lower_chars(text))})

\* a disqualifier term is present in a text, case-insensitively
HasDisqualifier(text) ==
  \E i \in DOMAIN non_nutrient_indicators :
    occurs(non_nutrient_indicators[i], lower_chars(text))

\* the nutrient-indicator count of every page text of the model, computed once
INDICATOR_COUNT ==
  [t \in TEXTS |-> NutrientIndicatorCount(t)]

\* the page texts of the model with a disqualifier term, computed once
DISQUALIFIED ==
  {t \in TEXTS : HasDisqualifier(t)}

\* C13: detect_nutrient_tables returns true iff at least 2 nutrient-indicator
\* terms are present and no disqualifier term is present; so it returns false
\* whenever a disqualifier is present, however many nutrient indicators match.
\* Checked for the text of every extracted page and for the contains_tables
\* value recorded in every returned chunk.
C13_NutrientTableIffIndicatorsAndNoDisqualifier ==
  DocReturned =>
    /\ \A n \in DOMAIN DocPages :
         ~PageFails(n) =>
           /\ detect_nutrient_tables(DocPages[n].text)
                = (INDICATOR_COUNT[DocPages[n].text] >= 2 /\ DocPages[n].text \notin DISQUALIFIED)
           /\ DocPages[n].text \in DISQUALIFIED => ~detect_nutrient_tables(DocPages[n].text)
    /\ \A c \in DocChunks :
         c.metadata.contains_tables
           = (INDICATOR_COUNT[DocPageText(c)] >= 2 /\ DocPageText(c) \notin DISQUALIFIED)

\* a returned document with a chunk of 3 nutrient indicators and a disqualifier,
\* not marked as a table, and a chunk marked as a table
C13_Witness ==
  /\ DocReturned
  /\ \E c \in DocChunks :
       /\ INDICATOR_COUNT[DocPageText(c)] >= 3
       /\ DocPageText(c) \in DISQUALIFIED
       /\ ~c.metadata.contains_tables
  /\ \E c \in DocChunks :
       /\ c.metadata.contains_tables
       /\ c.page_content = wrap(DocPageText(c))

\* ---------------------------------------------------------------------
\* C14
\* ---------------------------------------------------------------------

\* an administrative pattern of the ContentFilter list is present in a text
HasAdminPattern(text) ==
  \E i \in DOMAIN USDA_ADMIN_PATTERNS : occurs(USDA_ADMIN_PATTERNS[i], lower_chars(text))

\* the table-of-contents pattern: "table of contents" together with "page"
HasTocPattern(text) ==
  occurs(TABLE_OF_CONTENTS, lower_chars(text)) /\ occurs(PAGE, lower_chars(text))

\* the copyright pattern: "copyright" or the sign, together with "reserved"
HasCopyrightPattern(text) ==
  /\ occurs(COPYRIGHT, lower_chars(text)) \/ occurs(COPYRIGHT_SIGN, lower_chars(text))
  /\ occurs(RESERVED, lower_chars(text))

\* the page texts of the model matching no admin, toc or copyright pattern, computed once
UNPATTERNED ==
  {t \in TEXTS : ~HasAdminPattern(t) /\ ~HasTocPattern(t) /\ ~HasCopyrightPattern(t)}

\* C14: for every page with page_number > 20, at least 3 nutrition keywords and
\* no table-of-contents, copyright or administrative pattern match in its text,
\* is_low_value_page returns false: the page is admitted and gives a chunk.
C14_LatePlainNutritionPageAdmitted ==
  DocReturned =>
    \A n \in DOMAIN DocPages :
      (/\ n > 20
       /\ ~PageFails(n)
       /\ NutritionCount(DocPages[n].text) >= 3
       /\ DocPages[n].text \in UNPATTERNED) =>
        /\ ~is_low_value_page(DocPages[n].text, n, Len(DocPages),
                              NutritionCount(DocPages[n].text))
        /\ ChunksOfPage(n) # {}

\* a returned document whose page 22 has 3 nutrition keywords or more, matches no
\* pattern, mentions "page", and gave a chunk
C14_Witness ==
  /\ DocReturned
  /\ Len(DocPages) >= 22
  /\ ~PageFails(22)
  /\ NutritionCount(DocPages[22].text) >= 3
  /\ DocPages[22].text \in UNPATTERNED
  /\ occurs(PAGE, lower_chars(DocPages[22].text))
  /\ ChunksOfPage(22) # {}

\* ---------------------------------------------------------------------
\* C15
\* ---------------------------------------------------------------------

\* the lower-cased id contains one of nutrient, sodium, sugar, fat, vitamin
IdNamesNutrient(id) ==
  \E i \in DOMAIN nutrient_id_keywords : occurs(nutrient_id_keywords[i], lower_chars(id))

\* the lower-cased id contains summary or executive
IdNamesSummary(id) ==
  \E i \in DOMAIN summary_id_keywords : occurs(summary_id_keywords[i], lower_chars(id))

\* the document type the stated precedence gives every id of the model, computed once
EXPECTED_TYPE ==
  [id \in IDS |-> IF IdNamesNutrient(id) THEN "nutrient_specific"
                  ELSE IF IdNamesSummary(id) THEN "summary"
                  ELSE "core_guideline"]

\* C15: the document_type of every chunk is derived from the manifest id alone:
\* nutrient_specific if the lower-cased id contains nutrient, sodium, sugar, fat
\* or vitamin (even when it also contains summary or executive), else summary
\* if it contains summary or executive, else core_guideline; all chunks of one
\* document carry the same document_type.
C15_DocumentTypeFromId ==
  DocReturned =>
    /\ \A c \in DocChunks : c.metadata.document_type = EXPECTED_TYPE[doc_entry.id]
    /\ \A c, d \in DocChunks : c.metadata.document_type = d.metadata.document_type

\* a returned document with two chunks whose id, in mixed case, names both a
\* nutrient and a summary
C15_Witness ==
  /\ DocReturned
  /\ IdNamesNutrient(doc_entry.id) /\ IdNamesSummary(doc_entry.id)
  /\ doc_entry.id # lower_chars(doc_entry.id)
  /\ Len(doc_outcome.docs) >= 2
  /\ \A c \in DocChunks : c.metadata.document_type = "nutrient_specific"

\* ---------------------------------------------------------------------
\* C16
\* ---------------------------------------------------------------------

\* one of the terms of a list is present in a text, case-insensitively
NamesAny(terms, text) ==
  \E i \in DOMAIN terms : occurs(terms[i], lower_chars(text))

\* the life-stage tags whose terms match a text: older_adults and adults both
\* need an adult term, older_adults an ageing term as well
MatchedTags(text) ==
  {tag \in {"pregnant", "breastfeeding", "infants", "children_teens", "adults",
            "older_adults", "athletes"} :
     CASE tag = "pregnant"       -> NamesAny(pregnant_terms, text)
       [] tag = "breastfeeding"  -> NamesAny(breastfeeding_terms, text)
       [] tag = "infants"        -> NamesAny(infant_terms, text)
       [] tag = "children_teens" -> NamesAny(child_terms, text)
       [] tag = "adults"         -> NamesAny(adult_terms, text) /\ ~NamesAny(older_terms, text)
       [] tag = "older_adults"   -> NamesAny(adult_terms, text) /\ NamesAny(older_terms, text)
       [] tag = "athletes"       -> NamesAny(athlete_terms, text)}

\* the matched tags of every page text of the model, computed once
MATCHED_TAGS ==
  [t \in TEXTS |-> MatchedTags(t)]

\* C16: the life_stages of every emitted chunk is never empty: it is exactly
\* [general] when the page has fewer than 3 nutrition keywords (no scan is done)
\* or when the terms of no life-stage tag match, and otherwise it is the set of
\* the matched tags, each once, which never contains general and never contains
\* both adults and older_adults.
C16_LifeStagesNeverEmpty ==
  DocReturned =>
    \A c \in DocChunks :
      LET stages == c.metadata.life_stages
          text == DocPageText(c)
      IN  /\ Len(stages) >= 1
          /\ IF NutritionCount(text) < 3 \/ MATCHED_TAGS[text] = {}
             THEN stages = <<"general">>
             ELSE /\ Range(stages) = MATCHED_TAGS[text]
                  /\ Len(stages) = Cardinality(MATCHED_TAGS[text])
                  /\ "general" \notin Range(stages)
                  /\ ~({"adults", "older_adults"} \subseteq Range(stages))

\* a returned document with a chunk of two tags and a chunk tagged general whose
\* text names a life stage but has fewer than 3 nutrition keywords
C16_Witness ==
  /\ DocReturned
  /\ \E c \in DocChunks : Len(c.metadata.life_stages) = 2
  /\ \E c \in DocChunks :
       /\ c.metadata.life_stages = <<"general">>
       /\ NutritionCount(DocPageText(c)) < 3
       /\ MATCHED_TAGS[DocPageText(c)] # {}

\* ---------------------------------------------------------------------
\* C17
\* ---------------------------------------------------------------------

\* Spec: load ended with the exception of one manifest entry, not with a return
\* or with the ValueError of the validation step
EntryFailureEscaped ==
  pc = "done" /\ manifest.kind = "list" /\ outcome.kind = "raise" /\ outcome.exc = "KeyError"

\* Spec: the manifest entries that lack the id or the path key
MalformedEntries ==
  {k \in DOMAIN manifest.corpus : ~({"id", "path"} \subseteq manifest.corpus[k].keys)}

\* C17: no failure confined to one manifest entry leaves load: for every entry,
\* one that lacks the id or the path key included, the exception is caught,
\* failed_docs is incremented, the entry adds no chunk and the later entries
\* are still processed; at the end of the loop successful_docs + failed_docs
\* is the number of manifest entries.
C17_NoEntryFailurePropagates ==
  (pc = "done" /\ manifest.kind = "list") =>
    /\ ~EntryFailureEscaped
    /\ Len(log) = Len(manifest.corpus)
    /\ successful_docs + failed_docs = Len(manifest.corpus)
    /\ \A k \in MalformedEntries : log[k].status = "failed" /\ log[k].chunks = 0

\* ---------------------------------------------------------------------
\* C18
\* ---------------------------------------------------------------------

\* the chunk contents of the model, plain or wrapped, with an administrative
\* pattern of the ContentFilter list, computed once
ADMIN_PATTERNED ==
  {t \in TEXTS \cup {wrap(u) : u \in TEXTS} : HasAdminPattern(t)}

\* C18: every chunk process_single_document emits with safety_level
\* administrative has page_number > 20 and life_stages = [general]; every chunk
\* with page_number <= 20 has at least 3 nutrition keywords and a safety_level
\* other than administrative; every chunk with page_number <= 15 contains no
\* administrative phrase of the ContentFilter list.
C18_AdministrativeOnlyAfterPage20 ==
  DocReturned =>
    \A c \in DocChunks :
      /\ c.metadata.safety_level = "administrative" =>
           /\ c.metadata.page > 20
           /\ c.metadata.life_stages = <<"general">>
      /\ c.metadata.page <= 20 =>
           /\ NutritionCount(DocPageText(c)) >= 3
           /\ c.metadata.safety_level # "administrative"
      /\ c.metadata.page <= 15 =>
           /\ c.page_content \notin ADMIN_PATTERNED
           /\ DocPageText(c) \notin ADMIN_PATTERNED

\* a returned document with an administrative chunk of a page that names a life
\* stage, next to a chunk that is not administrative
C18_Witness ==
  /\ DocReturned
  /\ \E c \in DocChunks :
       /\ c.metadata.safety_level = "administrative"
       /\ MATCHED_TAGS[DocPageText(c)] # {}
  /\ \E c \in DocChunks : c.metadata.safety_level # "administrative"

====
